---- MODULE Spec2Model ----
(***************************************************************************)
(* Model of the fleet resource controller of CyberFutureCloud/ModuleOpt:   *)
(*   src/shadow_bot_creator.py  ShadowBotManager (registry `bots`)         *)
(*   src/task_manager.py        TaskManager (_monitor_container loop)      *)
(* Every method is translated statement by statement into steps of a      *)
(* thread; a thread's position is its pc.                                  *)
(***************************************************************************)
EXTENDS Integers, Sequences, FiniteSets, TLC

(* ---------------- bounds of the model ---------------- *)
\* bot names a caller (or random.randint) can produce
NumNames == 3
\* threads calling ShadowBotManager
NumThreads == 2
\* largest max_bots the constructor is given
MaxBots == 2
\* total number of containers the runtime is asked to start
MaxRuns == 3

\* monitor threads of one TaskManager
NumMonitors == 2
\* largest max_containers the constructor is given
MaxContainers == 2
\* total number of containers the TaskManager's runtime is asked to start
MaxTmRuns == 2
\* stats samples fetched by the monitors of a run with varied load
TicksVaried == 2
\* stats samples fetched by the monitors of a run with steady load
TicksSteady == 11
\* stats samples a monitor started after the first one fetches
TicksLate == 1

\* threads calling the rate limiter
NumCallers == 2
\* api_rate_limit, in clock ticks
ApiRateLimit == 3

\* worker threads taking tasks from the queue
NumWorkers == 2
\* tasks put on the queue in one run
MaxTasks == 4

Names == 1..NumNames
Threads == 1..NumThreads
\* psutil percentages on both sides of the thresholds 30 and 80
Loads == {10, 30, 80, 90}

\* names and container handles are positive integers
None == 0
Raised == -1

VARIABLES
    \* ---- ShadowBotManager ----
    max_bots,          \* self.max_bots
    bots,              \* self.bots: name -> container handle
    bot_count_gauge,   \* shadow_bot_count gauge
    docker,            \* the runtime: live container handle -> its name
    nextId,            \* next handle the runtime hands out
    pc,                \* position of each calling thread
    frame,             \* locals of the call a thread is in (or last made)
    \* ---- TaskManager ----
    max_containers,    \* self.max_containers
    webhook_url,       \* self.webhook_url is set (TRUE) or None (FALSE)
    containers,        \* self.containers: name -> container handle
    load_history,      \* self.load_history: list of samples
    gauges,            \* the four Prometheus gauges: last exported averages
    events,            \* rows of the logs table (event column)
    runtime,           \* the runtime: live handle -> limits and restart count
    tmNextId,          \* next handle the runtime hands out
    mpc,               \* position of each monitor thread
    mon,               \* locals of each monitor thread
    inserted,          \* every sample appended to load_history, in order
    budget,            \* stats samples the run may still fetch
    \* ---- TaskManager: rate limiter ----
    lock,              \* self.lock: the caller holding it, or None
    elapsed,           \* time.time() - self.last_request_time, up to api_rate_limit
    rpc,               \* position of each caller of acquire
    wait,              \* time each caller still sleeps
    gap,               \* time since the last acquisition, up to api_rate_limit
    admissions,        \* acquisitions so far, counted up to two
    \* ---- TaskManager: task queue ----
    task_queue,        \* self.task_queue: the heap list of the PriorityQueue
    pushed,            \* number of tasks put so far
    held,              \* the task each worker has taken and not finished
    popped             \* every task taken from the queue, in order

sbVars == <<max_bots, bots, bot_count_gauge, docker, nextId, pc, frame>>
tmVars == <<max_containers, webhook_url, containers, load_history, gauges,
            events, runtime, tmNextId, mpc, mon, inserted, budget>>
rlVars == <<lock, elapsed, rpc, wait, gap, admissions>>
tqVars == <<task_queue, pushed, held, popped>>
vars == <<max_bots, bots, bot_count_gauge, docker, nextId, pc, frame,
          max_containers, webhook_url, containers, load_history, gauges,
          events, runtime, tmNextId, mpc, mon, inserted, budget,
          lock, elapsed, rpc, wait, gap, admissions,
          task_queue, pushed, held, popped>>

(* ---------------- helpers ---------------- *)
\* len(d) of a dict
Len_(d) == Cardinality(DOMAIN d)

\* d with key k deleted
DictDel(d, k) == [x \in (DOMAIN d) \ {k} |-> d[x]]

\* d with d[k] = v
DictSet(d, k, v) == [x \in (DOMAIN d) \cup {k} |-> IF x = k THEN v ELSE d[x]]

EmptyDict == [x \in {} |-> 0]

\* `before` keeps, for the time of an auto_scale_bots call, the registry the
\* call started from
IdleFrame == [op |-> "none", arg |-> None, cpu |-> 0, mem |-> 0,
              container |-> None, ret |-> None, before |-> EmptyDict]

TypeOK ==
    /\ max_bots \in 1..(MaxBots + 1)
    /\ DOMAIN bots \subseteq Names
    /\ bot_count_gauge \in Nat
    /\ nextId \in Nat

(* ---------------- ShadowBotManager.__init__ ---------------- *)
SbInitFor(S) ==
    /\ max_bots \in S
    /\ bots = EmptyDict
    /\ bot_count_gauge = 0
    /\ docker = EmptyDict
    /\ nextId = 1
    /\ pc = [t \in Threads |-> "idle"]
    /\ frame = [t \in Threads |-> IdleFrame]

SbInit == SbInitFor(1..MaxBots)

(* a call returns: to auto_scale_bots when nested, else to the caller *)
Return(t, r) ==
    IF frame[t].op = "auto_scale"
    THEN /\ pc' = [pc EXCEPT ![t] = "a_print"]
         /\ frame' = [frame EXCEPT ![t].container = None]
    ELSE /\ pc' = [pc EXCEPT ![t] = "idle"]
         /\ frame' = [frame EXCEPT ![t].ret = r, ![t].container = None]

(* an exception leaves every frame of the thread *)
Raise(t) ==
    /\ pc' = [pc EXCEPT ![t] = "idle"]
    /\ frame' = [frame EXCEPT ![t].ret = Raised, ![t].container = None,
                              ![t].cpu = 0, ![t].mem = 0,
                              ![t].before = EmptyDict]

(* ---------------- create_shadow_bot ---------------- *)
\* (variant: off by one)
AtCapacity_strict(b, mx) == Len_(b) > mx
\* line 31: len(self.bots) >= self.max_bots
AtCapacity(b, mx) == Len_(b) >= mx

CallCreate(t, n) ==
    /\ pc[t] = "idle"
    /\ pc' = [pc EXCEPT ![t] = "c_check"]
    /\ frame' = [frame EXCEPT ![t] = [IdleFrame EXCEPT !.op = "create", !.arg = n]]
    /\ UNCHANGED <<max_bots, bots, bot_count_gauge, docker, nextId>>

\* (variant: the runtime is asked for a container before the capacity check)
CreateCheck_runFirst(t) ==
    /\ pc[t] = "c_check"
    /\ IF AtCapacity(bots, max_bots)
       THEN /\ Return(t, None)
            /\ docker' = DictSet(docker, nextId, 1)
            /\ nextId' = nextId + 1
       ELSE /\ \E n \in Names :
                 /\ frame[t].arg = None \/ n = frame[t].arg
                 /\ pc' = [pc EXCEPT ![t] = "c_run"]
                 /\ frame' = [frame EXCEPT ![t].arg = n]
            /\ UNCHANGED <<docker, nextId>>
    /\ UNCHANGED <<max_bots, bots, bot_count_gauge>>

\* lines 31-35: the capacity check, then bot_name = bot_name or random name
CreateCheck(t) ==
    /\ pc[t] = "c_check"
    /\ IF AtCapacity(bots, max_bots)
       THEN Return(t, None)
       ELSE \E n \in Names :
              /\ frame[t].arg = None \/ n = frame[t].arg
              /\ pc' = [pc EXCEPT ![t] = "c_run"]
              /\ frame' = [frame EXCEPT ![t].arg = n]
    /\ UNCHANGED <<max_bots, bots, bot_count_gauge, docker, nextId>>

\* (variant: the name of a live container is accepted once more)
CreateRun_noConflict(t) ==
    /\ pc[t] = "c_run"
    /\ \E ok \in BOOLEAN :
         IF ok /\ nextId <= MaxRuns
         THEN /\ docker' = DictSet(docker, nextId, frame[t].arg)
              /\ nextId' = nextId + 1
              /\ pc' = [pc EXCEPT ![t] = "c_insert"]
              /\ frame' = [frame EXCEPT ![t].container = nextId]
         ELSE /\ Raise(t)
              /\ UNCHANGED <<docker, nextId>>
    /\ UNCHANGED <<max_bots, bots, bot_count_gauge>>

\* lines 36-43: docker_client.containers.run(image, name=bot_name, ...);
\* the runtime refuses a name a live container has, and may fail otherwise
CreateRun(t) ==
    /\ pc[t] = "c_run"
    /\ \E ok \in BOOLEAN :
         IF ok /\ ~(\E c \in DOMAIN docker : docker[c] = frame[t].arg)
               /\ nextId <= MaxRuns
         THEN /\ docker' = DictSet(docker, nextId, frame[t].arg)
              /\ nextId' = nextId + 1
              /\ pc' = [pc EXCEPT ![t] = "c_insert"]
              /\ frame' = [frame EXCEPT ![t].container = nextId]
         ELSE /\ Raise(t)
              /\ UNCHANGED <<docker, nextId>>
    /\ UNCHANGED <<max_bots, bots, bot_count_gauge>>

\* line 44: self.bots[bot_name] = container
CreateInsert(t) ==
    /\ pc[t] = "c_insert"
    /\ bots' = DictSet(bots, frame[t].arg, frame[t].container)
    /\ pc' = [pc EXCEPT ![t] = "c_gauge"]
    /\ UNCHANGED <<max_bots, bot_count_gauge, docker, nextId, frame>>

\* (variant: the gauge is left as it was)
CreateGauge_stale(t) ==
    /\ pc[t] = "c_gauge"
    /\ Return(t, frame[t].container)
    /\ UNCHANGED <<max_bots, bots, bot_count_gauge, docker, nextId>>

\* lines 45-47: bot_count_gauge.set(len(self.bots)); return container
CreateGauge(t) ==
    /\ pc[t] = "c_gauge"
    /\ bot_count_gauge' = Len_(bots)
    /\ Return(t, frame[t].container)
    /\ UNCHANGED <<max_bots, bots, docker, nextId>>

(* ---------------- stop_shadow_bot ---------------- *)
CallStop(t, n) ==
    /\ pc[t] = "idle"
    /\ pc' = [pc EXCEPT ![t] = "s_check"]
    /\ frame' = [frame EXCEPT ![t] = [IdleFrame EXCEPT !.op = "stop", !.arg = n]]
    /\ UNCHANGED <<max_bots, bots, bot_count_gauge, docker, nextId>>

\* (variant: the remove is attempted whatever the registry holds)
StopCheck_noTest(t) ==
    /\ pc[t] = "s_check"
    /\ pc' = [pc EXCEPT ![t] = "s_remove"]
    /\ UNCHANGED <<max_bots, bots, bot_count_gauge, docker, nextId, frame>>

\* line 51 (else: lines 56-57)
StopCheck(t) ==
    /\ pc[t] = "s_check"
    /\ IF frame[t].arg \in DOMAIN bots
       THEN /\ pc' = [pc EXCEPT ![t] = "s_remove"]
            /\ UNCHANGED frame
       ELSE Return(t, None)
    /\ UNCHANGED <<max_bots, bots, bot_count_gauge, docker, nextId>>

\* (variant: a failure of the remove is swallowed)
StopRemove_swallow(t) ==
    /\ pc[t] = "s_remove"
    /\ \E ok \in BOOLEAN :
         IF /\ ok
            /\ frame[t].arg \in DOMAIN bots
            /\ bots[frame[t].arg] \in DOMAIN docker
         THEN docker' = DictDel(docker, bots[frame[t].arg])
         ELSE UNCHANGED docker
    /\ pc' = [pc EXCEPT ![t] = "s_del"]
    /\ UNCHANGED <<max_bots, bots, bot_count_gauge, nextId, frame>>

\* line 52: self.bots[bot_name].remove(force=True)
StopRemove(t) ==
    /\ pc[t] = "s_remove"
    /\ \E ok \in BOOLEAN :
         IF /\ ok
            /\ frame[t].arg \in DOMAIN bots
            /\ bots[frame[t].arg] \in DOMAIN docker
         THEN /\ docker' = DictDel(docker, bots[frame[t].arg])
              /\ pc' = [pc EXCEPT ![t] = "s_del"]
              /\ UNCHANGED frame
         ELSE /\ Raise(t)
              /\ UNCHANGED docker
    /\ UNCHANGED <<max_bots, bots, bot_count_gauge, nextId>>

\* line 53: del self.bots[bot_name]
StopDel(t) ==
    /\ pc[t] = "s_del"
    /\ IF frame[t].arg \in DOMAIN bots
       THEN /\ bots' = DictDel(bots, frame[t].arg)
            /\ pc' = [pc EXCEPT ![t] = "s_gauge"]
            /\ UNCHANGED frame
       ELSE /\ Raise(t)
            /\ UNCHANGED bots
    /\ UNCHANGED <<max_bots, bot_count_gauge, docker, nextId>>

\* lines 54-55
StopGauge(t) ==
    /\ pc[t] = "s_gauge"
    /\ bot_count_gauge' = Len_(bots)
    /\ Return(t, None)
    /\ UNCHANGED <<max_bots, bots, docker, nextId>>

(* ---------------- auto_scale_bots ---------------- *)
\* line 70: system_cpu > 80 or system_mem > 80 and len(self.bots) < self.max_bots
\* (`and` binds tighter than `or`)
ScaleOutCond(cpu, mem, n, mx) == cpu > 80 \/ (mem > 80 /\ n < mx)

\* (variant: the last bot may go too)
ScaleInCond_any(cpu, mem, n) == cpu < 30 /\ mem < 30 /\ n > 0
\* line 73
ScaleInCond(cpu, mem, n) == cpu < 30 /\ mem < 30 /\ n > 1

CallAutoScale(t) ==
    /\ pc[t] = "idle"
    /\ pc' = [pc EXCEPT ![t] = "a_read"]
    /\ frame' = [frame EXCEPT ![t] = [IdleFrame EXCEPT !.op = "auto_scale",
                                                       !.before = bots]]
    /\ UNCHANGED <<max_bots, bots, bot_count_gauge, docker, nextId>>

\* lines 65-68: the two psutil readings (the system gauges only mirror them)
AutoRead(t) ==
    /\ pc[t] = "a_read"
    /\ \E c \in Loads, m \in Loads :
         frame' = [frame EXCEPT ![t].cpu = c, ![t].mem = m]
    /\ pc' = [pc EXCEPT ![t] = "a_branch"]
    /\ UNCHANGED <<max_bots, bots, bot_count_gauge, docker, nextId>>

\* lines 70-76: the if / elif
AutoBranch(t) ==
    /\ pc[t] = "a_branch"
    /\ IF ScaleOutCond(frame[t].cpu, frame[t].mem, Len_(bots), max_bots)
       THEN \* line 72: self.create_shadow_bot()
            /\ pc' = [pc EXCEPT ![t] = "c_check"]
            /\ frame' = [frame EXCEPT ![t].arg = None, ![t].cpu = 0, ![t].mem = 0]
       ELSE IF ScaleInCond(frame[t].cpu, frame[t].mem, Len_(bots))
       THEN \* lines 74-76: random.choice(self.list_running_bots())
            \E n \in DOMAIN bots :
              /\ pc' = [pc EXCEPT ![t] = "s_check"]
              /\ frame' = [frame EXCEPT ![t].arg = n, ![t].cpu = 0, ![t].mem = 0]
       ELSE /\ pc' = [pc EXCEPT ![t] = "a_print"]
            /\ frame' = [frame EXCEPT ![t].cpu = 0, ![t].mem = 0]
    /\ UNCHANGED <<max_bots, bots, bot_count_gauge, docker, nextId>>

\* line 78
AutoPrint(t) ==
    /\ pc[t] = "a_print"
    /\ pc' = [pc EXCEPT ![t] = "idle"]
    /\ frame' = [frame EXCEPT ![t].ret = None, ![t].before = EmptyDict]
    /\ UNCHANGED <<max_bots, bots, bot_count_gauge, docker, nextId>>

(* ---------------- the ShadowBotManager specifications ---------------- *)
\* one step inside a call
SbStep(t) ==
    \/ CreateCheck(t)
    \/ CreateRun(t)
    \/ CreateInsert(t)
    \/ CreateGauge(t)
    \/ StopCheck(t)
    \/ StopRemove(t)
    \/ StopDel(t)
    \/ StopGauge(t)
    \/ AutoRead(t)
    \/ AutoBranch(t)
    \/ AutoPrint(t)

\* a caller starts a call
SbCall(t) ==
    \/ \E n \in Names \cup {None} : CallCreate(t, n)
    \/ \E n \in Names : CallStop(t, n)
    \/ CallAutoScale(t)

(* ======================= TaskManager ======================= *)
Monitors == 1..NumMonitors
\* names of the TaskManager's containers: a free one whenever there is room
TmNames == 1..MaxContainers

\* limits a container is started with (spec 4.3: create(name, image, cpuLimit, memLimit))
InitMemLimit == 100
InitCpuQuota == 50000

\* line 76: the window of load_history
HistoryCap == 10

\* readings container.stats / psutil can return: a quiet one, then one field at
\* a time on the lowest threshold of lines 90-108 and beyond the higher ones
\* (for a memory limit of 100), then all fields high; averages of several fall
\* on and between the other thresholds
Quiet == [cpu |-> 10000, mem |-> 10, scpu |-> 10, smem |-> 10]
VariedStats ==
    {Quiet}
    \cup {[Quiet EXCEPT !.cpu = c] : c \in {50000, 65000, 75000}}
    \cup {[Quiet EXCEPT !.mem = x] : x \in {80, 87, 95}}
    \cup {[Quiet EXCEPT !.scpu = 90], [Quiet EXCEPT !.smem = 90]}
    \cup {[cpu |-> 75000, mem |-> 95, scpu |-> 90, smem |-> 90]}
SteadyStats == {Quiet}

NoStats == [cpu |-> 0, mem |-> 0, limit |-> 0, scpu |-> 0, smem |-> 0]
\* an average is kept as the sum over the window and the window's length
NoAvg == [cpu |-> 0, mem |-> 0, scpu |-> 0, smem |-> 0, n |-> 0]

\* the four if-blocks of a tick, in source order (lines 90, 96, 102, 108)
MemBlk == 1
CpuBlk == 2
RestartBlk == 3
ScaleBlk == 4

IdleMon == [bot_name |-> None, container |-> None, stats |-> NoStats,
            avg |-> NoAvg, blk |-> 0, ticks |-> 0,
            \* what the current tick has done so far
            fired |-> <<>>, logged |-> <<>>, scaled |-> "none",
            \* outcome of the webhook call of the current if-block
            alert |-> "none",
            \* names of the containers whose samples the averages were taken over
            used |-> {}]

(* ---------------- TaskManager.__init__ ---------------- *)
TmInitFor(MC, WH, b) ==
    /\ max_containers \in MC
    /\ webhook_url \in WH
    /\ containers = EmptyDict
    /\ load_history = <<>>
    /\ gauges = NoAvg
    /\ events = <<>>
    /\ runtime = EmptyDict
    /\ tmNextId = 1
    /\ mpc = [m \in Monitors |-> "off"]
    /\ mon = [m \in Monitors |-> IdleMon]
    /\ inserted = <<>>
    /\ budget = b

(* ---------------- the container registry (spec 4.3) ---------------- *)
\* a handle no live container and no monitor thread has
FreshId == CHOOSE i \in 1..(MaxContainers + NumMonitors + 2) :
              /\ i \notin DOMAIN runtime
              /\ \A m \in Monitors : mon[m].container # i
              /\ \A j \in 1..(i - 1) :
                    j \in DOMAIN runtime \/ \E m \in Monitors : mon[m].container = j

\* the name a new container gets: the first one the registry does not hold
FreshName == CHOOSE n \in TmNames :
                /\ n \notin DOMAIN containers
                /\ \A j \in 1..(n - 1) : j \in DOMAIN containers

\* room for one more container
CanCreate ==
    /\ Len_(containers) < max_containers
    /\ tmNextId <= MaxTmRuns

\* the runtime starts a container and the registry takes it under a new name
DoCreate ==
    /\ runtime' = DictSet(runtime, FreshId,
                          [name |-> FreshName, mem_limit |-> InitMemLimit,
                           cpu_quota |-> InitCpuQuota, restarts |-> 0])
    /\ containers' = DictSet(containers, FreshName, FreshId)
    /\ tmNextId' = tmNextId + 1

\* create: check-and-insert in one step; a full registry is left as it is
RegistryCreate ==
    /\ CanCreate
    /\ DoCreate
    /\ UNCHANGED <<max_containers, webhook_url, load_history, gauges, events,
                   mpc, mon, inserted, budget>>

\* remove: the runtime removes the container, the name leaves the registry
RegistryRemove(n) ==
    /\ n \in DOMAIN containers
    /\ runtime' = DictDel(runtime, containers[n])
    /\ containers' = DictDel(containers, n)
    /\ UNCHANGED <<max_containers, webhook_url, load_history, gauges, events,
                   tmNextId, mpc, mon, inserted, budget>>

(* ---------------- _monitor_container ---------------- *)
\* the thread ends: by return (done) or by an exception nobody catches (crashed)
MonEnd(m, how) ==
    /\ mpc' = [mpc EXCEPT ![m] = how]
    /\ mon' = [mon EXCEPT ![m] = [IdleMon EXCEPT !.bot_name = mon[m].bot_name]]

\* a thread is started on _monitor_container(bot_name); threads are numbered
\* in the order they are started
MonSpawn(m, n) ==
    /\ mpc[m] = "off"
    /\ \A o \in 1..(m - 1) : mpc[o] # "off"
    /\ mpc' = [mpc EXCEPT ![m] = "get"]
    /\ mon' = [mon EXCEPT ![m].bot_name = n]
    /\ UNCHANGED <<max_containers, webhook_url, containers, load_history, gauges,
                   events, runtime, tmNextId, inserted, budget>>

\* lines 63-65
MonGet(m) ==
    /\ mpc[m] = "get"
    /\ IF mon[m].bot_name \in DOMAIN containers
       THEN /\ mpc' = [mpc EXCEPT ![m] = "stats"]
            /\ mon' = [mon EXCEPT ![m].container = containers[mon[m].bot_name]]
       ELSE MonEnd(m, "done")
    /\ UNCHANGED <<max_containers, webhook_url, containers, load_history, gauges,
                   events, runtime, tmNextId, inserted, budget>>

\* lines 68-73: container.stats(stream=False) and the psutil readings;
\* the runtime raises for a container it has removed
MonStats(m, S) ==
    /\ mpc[m] = "stats"
    /\ IF mon[m].container \in DOMAIN runtime
       THEN /\ budget > 0
            /\ m > 1 => mon[m].ticks < TicksLate
            /\ budget' = budget - 1
            /\ mpc' = [mpc EXCEPT ![m] = "append"]
            /\ \E s \in S :
                 mon' = [mon EXCEPT ![m].stats =
                           [cpu |-> s.cpu, mem |-> s.mem,
                            limit |-> runtime[mon[m].container].mem_limit,
                            scpu |-> s.scpu, smem |-> s.smem]]
       ELSE /\ MonEnd(m, "crashed")
            /\ UNCHANGED budget
    /\ UNCHANGED <<max_containers, webhook_url, containers, load_history, gauges,
                   events, runtime, tmNextId, inserted>>

\* the tuple of line 75, tagged with the container it was read from, the
\* monitor thread that read it and that thread's tick
SampleOf(m) ==
    [cpu |-> mon[m].stats.cpu, mem |-> mon[m].stats.mem,
     scpu |-> mon[m].stats.scpu, smem |-> mon[m].stats.smem,
     from |-> mon[m].bot_name, by |-> m, k |-> mon[m].ticks + 1]

\* line 75: self.load_history.append(...)
MonAppend(m) ==
    /\ mpc[m] = "append"
    /\ load_history' = Append(load_history, SampleOf(m))
    /\ inserted' = Append(inserted, SampleOf(m))
    /\ mpc' = [mpc EXCEPT ![m] = "lencheck"]
    /\ UNCHANGED <<max_containers, webhook_url, containers, gauges, events,
                   runtime, tmNextId, mon, budget>>

\* line 76: if len(self.load_history) > 10
MonLenCheck(m) ==
    /\ mpc[m] = "lencheck"
    /\ mpc' = [mpc EXCEPT ![m] = IF Len(load_history) > HistoryCap
                                  THEN "pop" ELSE "avg"]
    /\ UNCHANGED <<max_containers, webhook_url, containers, load_history, gauges,
                   events, runtime, tmNextId, mon, inserted, budget>>

\* line 77: self.load_history.pop(0)
MonPop(m) ==
    /\ mpc[m] = "pop"
    /\ IF load_history # <<>>
       THEN /\ load_history' = Tail(load_history)
            /\ mpc' = [mpc EXCEPT ![m] = "avg"]
            /\ UNCHANGED mon
       ELSE /\ MonEnd(m, "crashed")
            /\ UNCHANGED load_history
    /\ UNCHANGED <<max_containers, webhook_url, containers, gauges, events,
                   runtime, tmNextId, inserted, budget>>

RECURSIVE SumOf(_, _)
\* sum(x[f] for x in h)
SumOf(h, f) == IF h = <<>> THEN 0 ELSE Head(h)[f] + SumOf(Tail(h), f)

\* lines 79-82: the four sums over the window and its length
AvgOf(h) ==
    [cpu |-> SumOf(h, "cpu"), mem |-> SumOf(h, "mem"),
     scpu |-> SumOf(h, "scpu"), smem |-> SumOf(h, "smem"),
     n |-> Len(h)]

\* lines 79-88: the averages, exported to the gauges
MonAvg(m) ==
    /\ mpc[m] = "avg"
    /\ IF load_history # <<>>
       THEN /\ mon' = [mon EXCEPT ![m].avg = AvgOf(load_history),
                                  ![m].used = {load_history[i].from :
                                                 i \in 1..Len(load_history)},
                                  ![m].blk = MemBlk]
            /\ gauges' = AvgOf(load_history)
            /\ mpc' = [mpc EXCEPT ![m] = "if"]
       ELSE /\ MonEnd(m, "crashed")
            /\ UNCHANGED gauges
    /\ UNCHANGED <<max_containers, webhook_url, containers, load_history,
                   events, runtime, tmNextId, inserted, budget>>

\* (variant: the ratio 0.85 of line 108 used in line 90)
GrowMemoryCond_85(a, limit) == 100 * a.mem > 85 * a.n * limit \/ a.smem > 85 * a.n
\* line 90: avg_mem / mem_limit > 0.8 or avg_system_mem > 85
GrowMemoryCond(a, limit) == 10 * a.mem > 8 * a.n * limit \/ a.smem > 85 * a.n

\* line 96: avg_cpu > 50000 or avg_system_cpu > 85
GrowCpuCond(a) == a.cpu > 50000 * a.n \/ a.scpu > 85 * a.n

\* line 102: avg_mem / mem_limit > 0.9 or avg_cpu > 70000
RestartCond(a, limit) == 10 * a.mem > 9 * a.n * limit \/ a.cpu > 70000 * a.n

\* line 108: avg_cpu > 60000 or avg_mem / mem_limit > 0.85
ScaleOutTickCond(a, limit) == a.cpu > 60000 * a.n \/ 100 * a.mem > 85 * a.n * limit

Fires(b, a, limit) ==
    CASE b = MemBlk -> GrowMemoryCond(a, limit)
      [] b = CpuBlk -> GrowCpuCond(a)
      [] b = RestartBlk -> RestartCond(a, limit)
      [] b = ScaleBlk -> ScaleOutTickCond(a, limit)

\* on to the next if-block, or to the sleep of line 114
NextBlock(m, mn) ==
    /\ mpc' = [mpc EXCEPT ![m] = IF mon[m].blk < ScaleBlk THEN "if" ELSE "sleep"]
    /\ mon' = [mn EXCEPT ![m].blk = IF mon[m].blk < ScaleBlk
                                     THEN mon[m].blk + 1 ELSE 0,
                          ![m].alert = "none"]

\* lines 90, 96, 102, 108: the condition of the current if-block
MonIf(m) ==
    /\ mpc[m] = "if"
    /\ IF Fires(mon[m].blk, mon[m].avg, mon[m].stats.limit)
       THEN /\ mpc' = [mpc EXCEPT ![m] = "alert"]
            /\ UNCHANGED mon
       ELSE NextBlock(m, mon)
    /\ UNCHANGED <<max_containers, webhook_url, containers, load_history, gauges,
                   events, runtime, tmNextId, inserted, budget>>

\* lines 91, 97, 103, 109: the message names the bot, but for the scale-out
Message(m) ==
    [kind |-> mon[m].blk,
     bot |-> IF mon[m].blk = ScaleBlk THEN None ELSE mon[m].bot_name]

\* (variant: no try/except around requests.post)
SendWebhookAlert_uncaught(m) ==
    /\ mpc[m] = "alert"
    /\ IF webhook_url
       THEN \E ok \in BOOLEAN :
              IF ok
              THEN /\ mon' = [mon EXCEPT ![m].alert = "sent"]
                   /\ mpc' = [mpc EXCEPT ![m] = "log"]
              ELSE /\ mon' = [mon EXCEPT ![m].alert = "failed"]
                   /\ mpc' = [mpc EXCEPT ![m] = "crashed"]
       ELSE /\ mpc' = [mpc EXCEPT ![m] = "log"]
            /\ UNCHANGED mon
    /\ UNCHANGED <<max_containers, webhook_url, containers, load_history, gauges,
                   events, runtime, tmNextId, inserted, budget>>

\* lines 92, 98, 104, 110 -> 116-122: _send_webhook_alert(message); the
\* endpoint takes the message or the call fails, and nothing is kept of it
SendWebhookAlert(m) ==
    /\ mpc[m] = "alert"
    /\ IF webhook_url
       THEN \E ok \in BOOLEAN :
              IF ok
              THEN mon' = [mon EXCEPT ![m].alert = "sent"]
              ELSE \* except Exception as e: print(...)
                   mon' = [mon EXCEPT ![m].alert = "failed"]
       ELSE UNCHANGED mon
    /\ mpc' = [mpc EXCEPT ![m] = "log"]
    /\ UNCHANGED <<max_containers, webhook_url, containers, load_history, gauges,
                   events, runtime, tmNextId, inserted, budget>>

\* lines 93, 99, 105, 111 -> 53-59: _log_event(message); sqlite3 may raise
\* (connect, execute, commit), and nothing in _log_event or in the loop
\* catches it
LogEvent(m) ==
    /\ mpc[m] = "log"
    /\ \E ok \in BOOLEAN :
         IF ok
         THEN /\ events' = Append(events, Message(m))
              /\ mon' = [mon EXCEPT ![m].logged = Append(@, mon[m].blk)]
              /\ mpc' = [mpc EXCEPT ![m] = "apply"]
         ELSE /\ MonEnd(m, "crashed")
              /\ UNCHANGED events
    /\ UNCHANGED <<max_containers, webhook_url, containers, load_history, gauges,
                   runtime, tmNextId, inserted, budget>>

\* int(x * 1.2)
Grow(x) == (x * 12) \div 10

\* the current tick has carried out the body of block b
Fired(m) == [mon EXCEPT ![m].fired = Append(@, mon[m].blk)]

\* lines 94, 100, 106: container.update / container.restart; the runtime
\* raises for a container it has removed and may fail for one it holds, and
\* nothing in the loop catches it
ApplyToContainer(m) ==
    /\ mpc[m] = "apply"
    /\ mon[m].blk \in {MemBlk, CpuBlk, RestartBlk}
    /\ LET h == mon[m].container IN
       \E ok \in BOOLEAN :
       IF ok /\ h \in DOMAIN runtime
       THEN /\ runtime' =
                 CASE mon[m].blk = MemBlk ->
                        [runtime EXCEPT ![h].mem_limit = Grow(mon[m].stats.limit)]
                   [] mon[m].blk = CpuBlk ->
                        [runtime EXCEPT ![h].cpu_quota =
                                          (mon[m].avg.cpu * 12) \div (mon[m].avg.n * 10)]
                   [] mon[m].blk = RestartBlk ->
                        [runtime EXCEPT ![h].restarts = @ + 1]
            /\ NextBlock(m, Fired(m))
       ELSE /\ MonEnd(m, "crashed")
            /\ UNCHANGED runtime
    /\ UNCHANGED <<max_containers, webhook_url, containers, load_history, gauges,
                   events, tmNextId, inserted, budget>>

\* line 112: self._scale_up(container.image.tags[0]); _scale_up creates a
\* container under a new name when the registry has room, else does nothing
ScaleUp(m) ==
    /\ mpc[m] = "apply"
    /\ mon[m].blk = ScaleBlk
    /\ IF Len_(containers) < max_containers
       THEN /\ CanCreate
            /\ DoCreate
            /\ NextBlock(m, [Fired(m) EXCEPT ![m].scaled = "created"])
       ELSE /\ NextBlock(m, [Fired(m) EXCEPT ![m].scaled = "suppressed"])
            /\ UNCHANGED <<containers, runtime, tmNextId>>
    /\ UNCHANGED <<max_containers, webhook_url, load_history, gauges,
                   events, inserted, budget>>

\* line 114: time.sleep(5), then the next iteration
MonSleep(m) ==
    /\ mpc[m] = "sleep"
    /\ mpc' = [mpc EXCEPT ![m] = "stats"]
    /\ mon' = [mon EXCEPT ![m] = [IdleMon EXCEPT !.bot_name = mon[m].bot_name,
                                                 !.container = mon[m].container,
                                                 !.ticks = mon[m].ticks + 1]]
    /\ UNCHANGED <<max_containers, webhook_url, containers, load_history, gauges,
                   events, runtime, tmNextId, inserted, budget>>

(* ---------------- the rate limiter (spec 4.1) ---------------- *)
\* lock, api_rate_limit and last_request_time are set up in __init__
\* (lines 22, 27, 28); acquire is:
\*     with self.lock:
\*         elapsed = time.time() - self.last_request_time
\*         if elapsed < self.api_rate_limit:
\*             time.sleep(self.api_rate_limit - elapsed)
\*         self.last_request_time = time.time()
\* Time is kept relative: `elapsed` is the age of last_request_time and stops
\* growing at api_rate_limit, beyond which acquire no longer tells ages apart.
Callers == 1..NumCallers

\* lines 27-28: the lock is free, last_request_time = time.time()
RlInit ==
    /\ lock = None
    /\ elapsed = 0
    /\ rpc = [t \in Callers |-> "idle"]
    /\ wait = [t \in Callers |-> 0]
    /\ gap = ApiRateLimit
    /\ admissions = 0

Min(a, b) == IF a < b THEN a ELSE b

\* the clock advances by one tick; sleepers get nearer to waking up
RlTick ==
    /\ elapsed' = Min(elapsed + 1, ApiRateLimit)
    /\ gap' = Min(gap + 1, ApiRateLimit)
    /\ wait' = [t \in Callers |-> IF wait[t] > 0 THEN wait[t] - 1 ELSE 0]
    /\ UNCHANGED <<lock, rpc, admissions>>

\* a thread calls acquire
RlCall(t) ==
    /\ rpc[t] = "idle"
    /\ rpc' = [rpc EXCEPT ![t] = "lock"]
    /\ UNCHANGED <<lock, elapsed, wait, gap, admissions>>

\* (variant: the lock is not waited for)
RlLock_noWait(t) ==
    /\ rpc[t] = "lock"
    /\ lock' = t
    /\ rpc' = [rpc EXCEPT ![t] = "read"]
    /\ UNCHANGED <<elapsed, wait, gap, admissions>>

\* with self.lock: blocks while another thread holds the lock
RlLock(t) ==
    /\ rpc[t] = "lock"
    /\ lock = None
    /\ lock' = t
    /\ rpc' = [rpc EXCEPT ![t] = "read"]
    /\ UNCHANGED <<elapsed, wait, gap, admissions>>

\* the age of last_request_time is read and the sleep is set
RlRead(t) ==
    /\ rpc[t] = "read"
    /\ wait' = [wait EXCEPT ![t] = IF elapsed < ApiRateLimit
                                   THEN ApiRateLimit - elapsed ELSE 0]
    /\ rpc' = [rpc EXCEPT ![t] = "sleep"]
    /\ UNCHANGED <<lock, elapsed, gap, admissions>>

\* the sleep is over: last_request_time = time.time(); the caller is admitted
RlRecord(t) ==
    /\ rpc[t] = "sleep"
    /\ wait[t] = 0
    /\ elapsed' = 0
    /\ gap' = 0
    /\ admissions' = Min(admissions + 1, 2)
    /\ rpc' = [rpc EXCEPT ![t] = "unlock"]
    /\ UNCHANGED <<lock, wait>>

\* the with block ends and acquire returns
RlUnlock(t) ==
    /\ rpc[t] = "unlock"
    /\ lock' = IF lock = t THEN None ELSE lock
    /\ rpc' = [rpc EXCEPT ![t] = "idle"]
    /\ UNCHANGED <<elapsed, wait, gap, admissions>>

RlStep(t) == RlLock(t) \/ RlRead(t) \/ RlRecord(t) \/ RlUnlock(t)

NextLimiter ==
    /\ \/ RlTick
       \/ \E t \in Callers : RlCall(t)
       \/ \E t \in Callers : RlStep(t)
    /\ UNCHANGED <<sbVars, tmVars, tqVars>>

(* ---------------- the task queue (spec 4.2) ---------------- *)
\* line 20: self.task_queue = queue.PriorityQueue(), a heap list under one
\* mutex: put is heapq.heappush, get is heapq.heappop
Workers == 1..NumWorkers
Priorities == {1, 3, 5}
NoTask == [priority |-> 0, seq |-> 0]

\* a task as it is put: (priority, enqueue stamp); the stamp of a task is its
\* place in the order of the puts
TaskItem(p, k) == [priority |-> p, seq |-> k]

\* a < b on the tuples
ItemLess(a, b) ==
    \/ a.priority < b.priority
    \/ a.priority = b.priority /\ a.seq < b.seq

TqInit ==
    /\ task_queue = <<>>
    /\ pushed = 0
    /\ held = [w \in Workers |-> NoTask]
    /\ popped = <<>>

RECURSIVE SiftDown(_, _, _, _)
\* heapq._siftdown(heap, startpos, pos) carrying newitem; positions from 1
SiftDown(h, startpos, pos, newitem) ==
    IF pos > startpos /\ ItemLess(newitem, h[pos \div 2])
    THEN SiftDown([h EXCEPT ![pos] = h[pos \div 2]], startpos, pos \div 2, newitem)
    ELSE [h EXCEPT ![pos] = newitem]

\* heapq.heappush(heap, item)
HeapPush(h, item) == SiftDown(Append(h, item), 1, Len(h) + 1, item)

\* (variant: the left child is always taken)
SmallerChild_left(h, childpos) == childpos
\* heapq._siftup: the smaller child, the right one on a tie
SmallerChild(h, childpos) ==
    IF childpos + 1 <= Len(h) /\ ~ItemLess(h[childpos], h[childpos + 1])
    THEN childpos + 1
    ELSE childpos

RECURSIVE SiftUp(_, _, _, _)
\* heapq._siftup(heap, pos) carrying newitem: the smaller children move up
\* until a leaf is hit, then newitem is sifted down from there
SiftUp(h, startpos, pos, newitem) ==
    IF 2 * pos <= Len(h)
    THEN LET c == SmallerChild(h, 2 * pos)
         IN  SiftUp([h EXCEPT ![pos] = h[c]], startpos, c, newitem)
    ELSE SiftDown([h EXCEPT ![pos] = newitem], startpos, pos, newitem)

\* heapq.heappop(heap): the item returned and the heap left
HeapPop(h) ==
    LET lastelt == h[Len(h)]
        rest == SubSeq(h, 1, Len(h) - 1)
    IN  IF rest # <<>>
        THEN [item |-> rest[1], heap |-> SiftUp(rest, 1, 1, lastelt)]
        ELSE [item |-> lastelt, heap |-> rest]

\* a caller puts a task of priority p
TqPut(p) ==
    /\ pushed < MaxTasks
    /\ task_queue' = HeapPush(task_queue, TaskItem(p, pushed + 1))
    /\ pushed' = pushed + 1
    /\ UNCHANGED <<held, popped>>

\* a worker's get(): blocks while the queue is empty, pops under the mutex
TqGet(w) ==
    /\ held[w] = NoTask
    /\ task_queue # <<>>
    /\ task_queue' = HeapPop(task_queue).heap
    /\ held' = [held EXCEPT ![w] = HeapPop(task_queue).item]
    /\ popped' = Append(popped, HeapPop(task_queue).item)
    /\ UNCHANGED pushed

\* the worker has carried out its task and comes back for the next
TqDone(w) ==
    /\ held[w] # NoTask
    /\ held' = [held EXCEPT ![w] = NoTask]
    /\ UNCHANGED <<task_queue, pushed, popped>>

NextQueue ==
    /\ \/ \E p \in Priorities : TqPut(p)
       \/ \E w \in Workers : TqGet(w)
       \/ \E w \in Workers : TqDone(w)
    /\ UNCHANGED <<sbVars, tmVars, rlVars>>

(* ---------------- the TaskManager specifications ---------------- *)
MonStep(m, S) ==
    \/ MonGet(m)
    \/ MonStats(m, S)
    \/ MonAppend(m)
    \/ MonLenCheck(m)
    \/ MonPop(m)
    \/ MonAvg(m)
    \/ MonIf(m)
    \/ SendWebhookAlert(m)
    \/ LogEvent(m)
    \/ ApplyToContainer(m)
    \/ ScaleUp(m)
    \/ MonSleep(m)

\* one monitor thread, readings on both sides of every threshold
NextVaried ==
    /\ \/ RegistryCreate
       \/ \E n \in TmNames : RegistryRemove(n)
       \/ \E n \in TmNames : MonSpawn(1, n)
       \/ MonStep(1, VariedStats)
    /\ UNCHANGED <<sbVars, rlVars, tqVars>>

\* monitors of several containers side by side, steady low readings
NextSteady ==
    /\ \/ RegistryCreate
       \/ \E n \in TmNames : RegistryRemove(n)
       \/ \E m \in Monitors, n \in TmNames : MonSpawn(m, n)
       \/ \E m \in Monitors : MonStep(m, SteadyStats)
    /\ UNCHANGED <<sbVars, rlVars, tqVars>>

InitVaried ==
    /\ SbInitFor({1})
    /\ TmInitFor(1..MaxContainers, BOOLEAN, TicksVaried)
    /\ RlInit
    /\ TqInit
InitSteady ==
    /\ SbInitFor({1})
    /\ TmInitFor(1..MaxContainers, {FALSE}, TicksSteady)
    /\ RlInit
    /\ TqInit
SpecVaried == InitVaried /\ [][NextVaried]_vars
SpecSteady == InitSteady /\ [][NextSteady]_vars

(* ---------------- the ShadowBotManager specifications, continued ---------------- *)
\* calls run one after another: a single caller thread
NextSeq ==
    /\ \/ SbCall(1)
       \/ SbStep(1)
    /\ UNCHANGED <<tmVars, rlVars, tqVars>>

\* calls of different threads interleave
NextConc ==
    /\ \/ \E t \in Threads : SbCall(t)
       \/ \E t \in Threads : SbStep(t)
    /\ UNCHANGED <<tmVars, rlVars, tqVars>>

Init == SbInit /\ TmInitFor({1}, {FALSE}, 0) /\ RlInit /\ TqInit
Spec == Init /\ [][NextSeq]_vars
SpecConc == Init /\ [][NextConc]_vars

\* the clock keeps going, a thread in acquire keeps running, and a thread
\* that keeps asking for the lock gets it once it is free often enough
LimiterFair ==
    /\ WF_vars(RlTick /\ UNCHANGED <<sbVars, tmVars, tqVars>>)
    /\ \A t \in Callers :
          /\ SF_vars(RlLock(t) /\ UNCHANGED <<sbVars, tmVars, tqVars>>)
          /\ WF_vars((RlRead(t) \/ RlRecord(t) \/ RlUnlock(t))
                     /\ UNCHANGED <<sbVars, tmVars, tqVars>>)
\* the other components stay as constructed
InitRest ==
    /\ SbInitFor({1})
    /\ TmInitFor({1}, {FALSE}, 0)
    /\ RlInit
    /\ TqInit
SpecLimiter == InitRest /\ [][NextLimiter]_vars /\ LimiterFair
SpecQueue == InitRest /\ [][NextQueue]_vars

(* ======================= the claims ======================= *)

\* C1: under sequential create_shadow_bot / stop_shadow_bot / auto_scale_bots
\* calls the registry `bots` never holds more than max_bots entries.
C1_CapacityInvariant == Len_(bots) <= max_bots

\* C1 witness: the registry is full while an auto_scale_bots call that went
\* through its branches is about to return.
C1_Witness ==
    /\ Len_(bots) = max_bots
    /\ \E t \in Threads : pc[t] = "a_print" /\ frame[t].op = "auto_scale"

\* C2: with calls of several threads interleaving, the registry never holds
\* more than max_bots entries (check and insert act as one atomic step).
C2_ConcurrentCapacity == ~(Cardinality(DOMAIN bots) > max_bots)

\* C3: a create_shadow_bot call whose capacity check finds the registry full
\* returns None and changes neither the runtime, nor `bots`, nor the gauge.
C3_FullCreateUnchanged ==
    [][\A t \in Threads :
         (/\ pc[t] = "c_check"
          /\ frame[t].op = "create"
          /\ Cardinality(DOMAIN bots) >= max_bots
          /\ pc'[t] # "c_check")
         => /\ pc'[t] = "idle"
            /\ frame'[t].ret = None
            /\ bots' = bots
            /\ docker' = docker
            /\ nextId' = nextId
            /\ bot_count_gauge' = bot_count_gauge]_vars

\* C3 witness: a create_shadow_bot call has returned None on a full registry.
C3_Witness ==
    \E t \in Threads :
        /\ pc[t] = "idle"
        /\ frame[t].op = "create"
        /\ frame[t].ret = None
        /\ Len_(bots) = max_bots

\* the thresholds of spec 4.5 on a snapshot: sums s over a window of s.n
\* samples, memory limit l
C4_GrowMemory(s, l) == s.mem * 10 > 8 * s.n * l \/ s.smem > 85 * s.n
C4_GrowCpu(s) == s.cpu > 50000 * s.n \/ s.scpu > 85 * s.n
C4_Restart(s, l) == s.mem * 10 > 9 * s.n * l \/ s.cpu > 70000 * s.n
C4_ScaleOut(s, l) == s.cpu > 60000 * s.n \/ s.mem * 100 > 85 * s.n * l
C4_Expected(s, l) ==
    (IF C4_GrowMemory(s, l) THEN <<MemBlk>> ELSE <<>>)
    \o (IF C4_GrowCpu(s) THEN <<CpuBlk>> ELSE <<>>)
    \o (IF C4_Restart(s, l) THEN <<RestartBlk>> ELSE <<>>)
    \o (IF C4_ScaleOut(s, l) THEN <<ScaleBlk>> ELSE <<>>)

\* the part of an action list that belongs to the if-blocks before block b
C4_Before(q, b) == SelectSeq(q, LAMBDA x : x < b)

\* C4: the actions a tick carries out are exactly those whose threshold holds
\* on the smoothed snapshot, in the order memory-resize, cpu-resize, restart,
\* scale-out: at every if-block the actions done so far are the expected ones
\* of the earlier blocks, a block is entered only when its threshold holds, and
\* at the end of the tick the action list is the expected one. The expected
\* list is a function of the snapshot.
C4_IndependentThresholds ==
    \A m \in Monitors :
        LET e == C4_Expected(mon[m].avg, mon[m].stats.limit) IN
        /\ mpc[m] = "sleep" => mon[m].fired = e
        /\ mpc[m] \in {"if", "alert", "log", "apply"} =>
              mon[m].fired = C4_Before(e, mon[m].blk)
        /\ mpc[m] \in {"alert", "log", "apply"} =>
              \E i \in 1..Len(e) : e[i] = mon[m].blk

\* C4 witness: one tick has grown memory, grown cpu, restarted and scaled out.
C4_Witness ==
    \E m \in Monitors :
        /\ mpc[m] = "sleep"
        /\ mon[m].fired = <<MemBlk, CpuBlk, RestartBlk, ScaleBlk>>

\* the last n elements of a sequence
C5_LastN(q, n) ==
    IF Len(q) <= n THEN q ELSE SubSeq(q, Len(q) - n + 1, Len(q))

\* C5: where a tick computes its averages the history holds at most 10
\* samples, and they are the most recently inserted ones in insertion order,
\* however many monitors run.
C5_WindowBounded ==
    \A m \in Monitors :
        mpc[m] = "avg" =>
            /\ Len(load_history) <= 10
            /\ load_history = C5_LastN(inserted, 10)

\* C6: the averages a monitor decides on are taken over samples of its own
\* container only.
C6_OwnSamplesOnly ==
    \A m \in Monitors :
        mpc[m] \in {"if", "alert", "log", "apply", "sleep"} =>
            mon[m].used \subseteq {mon[m].bot_name}

\* C7: a monitor loop that has ended after its container was removed has
\* released its load history: none of the samples it took is kept.
C7_HistoryReleased ==
    \A m \in Monitors :
        mpc[m] = "crashed" =>
            \A i \in 1..Len(load_history) : load_history[i].by # m

\* C8: a failed webhook delivery is not raised to the monitor, and the event
\* of the same action is appended to the log next.
C8_AlertFailureStillLogs ==
    \A m \in Monitors :
        mon[m].alert = "failed" =>
            \/ mpc[m] = "log"
            \/ /\ mpc[m] = "apply"
               /\ events # <<>>
               /\ events[Len(events)].kind = mon[m].blk

\* C8 witness: the alert of the current action failed and its event is logged.
C8_Witness ==
    \E m \in Monitors :
        /\ mon[m].alert = "failed"
        /\ mpc[m] = "apply"
        /\ events # <<>>
        /\ events[Len(events)].kind = mon[m].blk

\* C9: a scale-out suppressed at full capacity is not reported as taken, does
\* not end the monitor, and leaves the count within max_containers.
C9_SuppressedScaleOutSilent ==
    \A m \in Monitors :
        mon[m].scaled = "suppressed" =>
            /\ \A i \in 1..Len(mon[m].logged) : mon[m].logged[i] # ScaleBlk
            /\ mpc[m] # "crashed"
            /\ Len_(containers) <= max_containers

\* C10: auto_scale_bots goes to create_shadow_bot exactly when
\* (cpu > 80 or mem > 80) and the bot count is below max_bots.
C10_ScaleOutExactly ==
    [][\A t \in Threads :
         (pc[t] = "a_branch" /\ pc'[t] # "a_branch")
         => ((pc'[t] = "c_check")
             <=> ((frame[t].cpu > 80 \/ frame[t].mem > 80)
                  /\ Cardinality(DOMAIN bots) < max_bots))]_vars

\* C11: auto_scale_bots goes to stop_shadow_bot only when cpu < 30 and
\* mem < 30 and more than one bot is registered, and the bot it picks is in the
\* registry; until the call returns the registry is the one the call started
\* from, or that one without exactly one of its (more than one) bots, or that
\* one with one new bot: a non-empty fleet never drops below one bot and one
\* call changes the count by at most one.
C11_ScaleInOne ==
    [][\A t \in Threads :
         /\ (pc[t] = "a_branch" /\ pc'[t] = "s_check")
            => /\ frame[t].cpu < 30
               /\ frame[t].mem < 30
               /\ Cardinality(DOMAIN bots) > 1
               /\ frame'[t].arg \in DOMAIN bots
         /\ (frame'[t].op = "auto_scale" /\ pc'[t] # "idle")
            => LET b0 == frame'[t].before
                   b1 == bots'
               IN  /\ \A n \in DOMAIN b0 \cap DOMAIN b1 : b1[n] = b0[n]
                   /\ \/ DOMAIN b1 = DOMAIN b0
                      \/ /\ Cardinality(DOMAIN b0) > 1
                         /\ \E n \in DOMAIN b0 : DOMAIN b1 = DOMAIN b0 \ {n}
                         /\ pc'[t] \in {"s_gauge", "a_print"}
                      \/ /\ \E n \in Names \ DOMAIN b0 :
                               DOMAIN b1 = DOMAIN b0 \cup {n}
                         /\ pc'[t] \in {"c_gauge", "a_print"}
                   /\ DOMAIN b0 # {} => DOMAIN b1 # {}]_vars

\* C11 witness: an auto_scale_bots call has removed one bot of two and is
\* about to return.
C11_Witness ==
    \E t \in Threads :
        /\ pc[t] = "a_print"
        /\ frame[t].op = "auto_scale"
        /\ Cardinality(DOMAIN frame[t].before) = 2
        /\ Cardinality(DOMAIN bots) = 1
        /\ DOMAIN bots \subseteq DOMAIN frame[t].before

\* C12: create_shadow_bot with a name that is a key of the registry, the count
\* being below max_bots, ends in the exception of the runtime call and leaves
\* the registry, the runtime's containers and the gauge as they were.
C12_NameConflict ==
    [][\A t \in Threads :
         (/\ pc[t] = "c_run"
          /\ frame[t].op = "create"
          /\ frame[t].arg \in DOMAIN bots
          /\ Cardinality(DOMAIN bots) < max_bots
          /\ pc'[t] # "c_run")
         => /\ pc'[t] = "idle"
            /\ frame'[t].ret = Raised
            /\ bots' = bots
            /\ docker' = docker
            /\ bot_count_gauge' = bot_count_gauge]_vars

\* C12 witness: a create_shadow_bot call for a registered name has raised
\* with room left in the registry, and the entry maps to its live container.
C12_Witness ==
    \E t \in Threads :
        /\ pc[t] = "idle"
        /\ frame[t].op = "create"
        /\ frame[t].ret = Raised
        /\ frame[t].arg \in DOMAIN bots
        /\ Cardinality(DOMAIN bots) < max_bots
        /\ bots[frame[t].arg] \in DOMAIN docker
        /\ docker[bots[frame[t].arg]] = frame[t].arg

\* C13: stop_shadow_bot with a name that is not in the registry goes to the
\* else branch (the not-found message) and returns: the runtime's remove is
\* not reached, and `bots`, the runtime and the gauge are unchanged.
C13_StopAbsent ==
    [][\A t \in Threads :
         (/\ pc[t] = "s_check"
          /\ frame[t].arg \notin DOMAIN bots
          /\ pc'[t] # "s_check")
         => /\ pc'[t] \in {"idle", "a_print"}
            /\ frame[t].op = "stop" => (pc'[t] = "idle" /\ frame'[t].ret = None)
            /\ bots' = bots
            /\ docker' = docker
            /\ bot_count_gauge' = bot_count_gauge]_vars

\* C13 witness: a stop_shadow_bot call for an absent name has returned; no
\* container was ever started, so it cannot have removed one.
C13_Witness ==
    \E t \in Threads :
        /\ pc[t] = "idle"
        /\ frame[t].op = "stop"
        /\ frame[t].ret = None
        /\ frame[t].arg \notin DOMAIN bots
        /\ nextId = 1

\* C14: whenever a create_shadow_bot, stop_shadow_bot or auto_scale_bots call
\* has completed, by return or by exception, the bot-count gauge equals
\* len(bots).
C14_GaugeIsCount ==
    \A t \in Threads :
        (pc[t] = "idle" /\ frame[t].op # "none")
            => bot_count_gauge = Cardinality(DOMAIN bots)

\* C14 witness: a call has ended in an exception with bots registered.
C14_Witness ==
    \E t \in Threads :
        /\ pc[t] = "idle"
        /\ frame[t].ret = Raised
        /\ bots # EmptyDict
        /\ bot_count_gauge = Cardinality(DOMAIN bots)

\* every name of the registry maps to a container the runtime started under
\* that name and has not removed
C20_Live == \A n \in DOMAIN bots :
                bots[n] \in DOMAIN docker /\ docker[bots[n]] = n

\* C20: between calls made one after another, runtime failures included,
\* every name of the registry maps to a live container of the runtime; a
\* failed run adds no entry, and a failed remove leaves the registry and the
\* gauge as they were.
C20_RegistryLive ==
    [][/\ (\A t \in Threads : pc'[t] = "idle") => C20_Live'
       /\ \A t \in Threads :
         /\ (pc[t] = "c_run" /\ frame'[t].ret = Raised /\ pc'[t] = "idle")
            => (bots' = bots /\ bot_count_gauge' = bot_count_gauge)
         /\ (pc[t] = "s_remove" /\ docker' = docker /\ pc'[t] # "s_remove")
            => /\ pc'[t] = "idle"
               /\ frame'[t].ret = Raised
               /\ bots' = bots
               /\ bot_count_gauge' = bot_count_gauge]_vars

\* C20 witness: a stop_shadow_bot call has ended in the exception of the
\* runtime's remove, and the bot is still registered and live.
C20_Witness ==
    \E t \in Threads :
        /\ pc[t] = "idle"
        /\ frame[t].op = "stop"
        /\ frame[t].ret = Raised
        /\ frame[t].arg \in DOMAIN bots
        /\ bots[frame[t].arg] \in DOMAIN docker

\* C17: a runtime update or restart call that fails on a container the
\* runtime still holds does not end the monitor loop: the monitor goes on to
\* the next threshold check of the tick.
C17_FailedActionGoesOn ==
    [][\A m \in Monitors :
         (/\ mpc[m] = "apply"
          /\ mon[m].blk \in {MemBlk, CpuBlk, RestartBlk}
          /\ mon[m].container \in DOMAIN runtime
          /\ mpc'[m] # "apply")
         => /\ mpc'[m] = "if"
            /\ mon'[m].blk = mon[m].blk + 1]_vars

\* C18: a log write that fails does not keep the action of the same if-block
\* from being applied: after _log_event the monitor is at the action.
C18_FailedLogStillApplies ==
    [][\A m \in Monitors :
         (mpc[m] = "log" /\ mpc'[m] # "log")
         => /\ mpc'[m] = "apply"
            /\ mon'[m].blk = mon[m].blk]_vars

\* C19: every event a tick has appended to the log describes an action that
\* tick has already carried out.
C19_EventAfterAction ==
    \A m \in Monitors :
        \A i \in 1..Len(mon[m].logged) :
            \E j \in 1..Len(mon[m].fired) : mon[m].fired[j] = mon[m].logged[i]

C16_Queued(h) == {h[i] : i \in 1..Len(h)}

\* task a goes before task b: lower priority value first, then the one put
\* first
C16_Before(a, b) ==
    \/ a.priority < b.priority
    \/ a.priority = b.priority /\ a.seq < b.seq

====
